---- MODULE Spec2Model ----
(***************************************************************************)
(* A model of src/main.py, the Aliyun image pruner.                        *)
(*                                                                         *)
(* One process runs at a time.  It is either the script's main(), modelled *)
(* phase by phase, or one of the module's functions that main() as shipped *)
(* does not call (lines 403-404 are comments): tag_image,                  *)
(* tag_image_and_save_to_file and delete_image.  The cloud, the ledger     *)
(* file, the installer history and the build catalog are the environment.  *)
(*                                                                         *)
(* Python dicts keep insertion order, and delete_image depends on it, so a *)
(* dict is a sequence of [k, v] records with distinct keys.                *)
(***************************************************************************)
EXTENDS Integers, Sequences, FiniteSets, TLC

\* ------------------------------------------------------------------ bounds

\* The number of operations (processes) started in one behaviour.
MaxOps == 2

\* The remote call of one function invocation that raises a provider error
\* is drawn from 0..MaxFailAt; 0 means no call fails.
MaxFailAt == 3

\* ------------------------------------------------------------- python dicts

Keys(d) == {d[i].k : i \in DOMAIN d}

Has(d, key) == key \in Keys(d)

Get(d, key) == d[CHOOSE i \in DOMAIN d : d[i].k = key].v

\* d[key] = val: an existing key keeps its position, a new one goes last.
Put(d, key, val) ==
    IF Has(d, key)
    THEN [i \in DOMAIN d |-> IF d[i].k = key THEN [k |-> key, v |-> val] ELSE d[i]]
    ELSE Append(d, [k |-> key, v |-> val])

RECURSIVE UpdateFrom(_, _, _)
UpdateFrom(d, new, i) ==
    IF i > Len(new) THEN d
    ELSE UpdateFrom(Put(d, new[i].k, new[i].v), new, i + 1)

\* dict.update(new)
Update(d, new) == UpdateFrom(d, new, 1)

\* A Python value that is either None or a dict.
PyNone == [none |-> TRUE, d |-> <<>>]

PyDict(d) == [none |-> FALSE, d |-> d]

\* ------------------------------------------------------------ the inputs

Ref(region, image) == [region |-> region, image |-> image]

Refs == {Ref("r1", "i1"), Ref("r1", "i2"), Ref("r2", "i3")}

Tag(key, value) == [TagKey |-> key, TagValue |-> value]

\* The tag lists an image starts with, in the order DescribeImages returns them.
TagLists ==
    { <<>>,
      <<Tag("bootimage", "false")>>,
      <<Tag("bootimage", "true")>>,
      <<Tag("other", "x"), Tag("bootimage", "true")>> }

\* The characters of each build ID (a TLA+ string has no characters to strip).
BuildChars(buildid) ==
    CASE buildid = "410.1" -> <<"4", "1", "0", ".", "1">>
      [] buildid = "410.2" -> <<"4", "1", "0", ".", "2">>

\* builds.json of the release, with the meta.json of each build.
Build(id, arch, meta) == [id |-> id, arches |-> <<arch>>, meta |-> meta]

\* A meta.json with an aliyun section.
Aliyun(entries) == <<[k |-> "aliyun", v |-> entries]>>

Entry(name, id) == [name |-> name, id |-> id]

Catalogs ==
    { << Build("410.1", "x86_64", Aliyun(<<Entry("r1", "i1")>>)),
         Build("410.2", "x86_64", Aliyun(<<Entry("r1", "i2"), Entry("r2", "i3")>>)) >>,
      << Build("410.1", "x86_64", <<>>),
         Build("410.2", "x86_64", Aliyun(<<Entry("r1", "i2"), Entry("r2", "i3")>>)) >> }

\* What parse_openshift_installer returns: build ID -> region -> image.
Installers ==
    { <<>>,
      << [k |-> "410.1", v |-> <<[k |-> "r1", v |-> "i1"]>>] >> }

\* The image_list arguments tag_image_and_save_to_file is called with.
ImageLists ==
    { << [k |-> "410.1", v |-> <<[region_id |-> "r1", image_id |-> "i1"]>>] >>,
      << [k |-> "410.2", v |-> <<[region_id |-> "r1", image_id |-> "i2"],
                                 [region_id |-> "r2", image_id |-> "i3"]>>] >>,
      << [k |-> "410.2", v |-> <<[region_id |-> "r1", image_id |-> "i2"]>>] >> }

\* The ledger files a process may find: none, or one an earlier
\* tag_image_and_save_to_file left.
Ledgers ==
    { [exists |-> FALSE, data |-> <<>>, garbage |-> FALSE],
      [exists |-> TRUE, garbage |-> FALSE,
       data |-> << [k |-> "410.1",
                    v |-> <<[region |-> "r1", image |-> "i1", deleted |-> FALSE]>>] >>],
      [exists |-> TRUE, garbage |-> FALSE,
       data |-> << [k |-> "410.2",
                    v |-> <<[region |-> "r1", image |-> "i2", deleted |-> FALSE],
                            [region |-> "r2", image |-> "i3", deleted |-> FALSE]>>],
                   [k |-> "410.1",
                    v |-> <<[region |-> "r1", image |-> "i1", deleted |-> FALSE]>>] >>] }

\* The images tag_image is called for.
TagTargets == {Ref("r1", "i2")}

\* The images change_visibility is called for.
VisibilityTargets == {Ref("r1", "i1"), Ref("r1", "i2")}

Release == "4.10"

\* ------------------------------------------------------------------ state

VARIABLES
    installer,            \* what parse_openshift_installer returns
    catalog,              \* builds.json and the meta.json documents
    cloud,                \* the tag list of every image, as DescribeImages returns it
    public,               \* the images whose IsPublic is true
    missing,              \* the image IDs DescribeImages finds no image for
    file,                 \* the ledger file: [exists, data, garbage]
    DRY_RUN,              \* the global main() sets
    pc,                   \* where the running process is; "idle" when none runs
    outcome,              \* how the last process ended, "running" while one runs
    calls,                \* the remote calls the current process has issued
    fetched,              \* the builds whose meta.json the current process fetched
    bootimages,           \* main's local
    aliyun_releases,      \* main's local
    deleted_images_json,  \* the ledger in memory (main's and delete_image's local)
    image_list,           \* main's local
    file0,                \* the ledger file as the current process found it
    mutations,            \* every mutating call that has returned successfully
    ops,                  \* the operations started so far, in order
    target                \* the arguments of the last change_visibility call

vars == << installer, catalog, cloud, file, DRY_RUN, pc, outcome, calls, fetched,
           bootimages, aliyun_releases, deleted_images_json, image_list, file0,
           mutations, ops, public, missing, target >>

\* -------------------------------------------------------- the ledger file

\* len(s) of the strings of this model.
StrLen(s) == IF s \in {"410.1", "410.2"} THEN 5 ELSE 2

\* The length of json.dumps of a list or dict of n items whose lengths add
\* up to sum: the brackets, the items and a ", " between two items.
JoinedLen(n, sum) == 2 + sum + (IF n = 0 THEN 0 ELSE 2 * (n - 1))

\* {"region": "r1", "image": "i1", "deleted": false}
EntryLen(e) ==
    40 + StrLen(e.region) + StrLen(e.image) + (IF e.deleted THEN 4 ELSE 5)

RECURSIVE EntriesLen(_, _)
EntriesLen(entries, i) ==
    IF i > Len(entries) THEN 0 ELSE EntryLen(entries[i]) + EntriesLen(entries, i + 1)

\* "410.1": [...]
BuildLen(b) == StrLen(b.k) + 4 + JoinedLen(Len(b.v), EntriesLen(b.v, 1))

RECURSIVE BuildsLen(_, _)
BuildsLen(data, i) ==
    IF i > Len(data) THEN 0 ELSE BuildLen(data[i]) + BuildsLen(data, i + 1)

\* len(json.dumps(data))
JsonLen(data) == JoinedLen(Len(data), BuildsLen(data, 1))

NoFile == [exists |-> FALSE, data |-> <<>>, garbage |-> FALSE]

\* open(path, 'w') and a dump: the file holds exactly the document.
WriteFile(data) == [exists |-> TRUE, data |-> data, garbage |-> FALSE]

\* open(path, 'r+'), seek(0), write: nothing truncates the file, so a
\* document shorter than the old one is followed by the old one's tail.
OverwriteFile(old, data) ==
    [exists |-> TRUE, data |-> data,
     garbage |-> old.garbage \/ JsonLen(data) < JsonLen(old.data)]

\* ------------------------------------------------------------ the cloud

Request(action, region, image) ==
    [action |-> action, region |-> region, image |-> image,
     key |-> "", value |-> "", ok |-> TRUE]

TagRequest(region, image, key, value) ==
    [action |-> "TagResources", region |-> region, image |-> image,
     key |-> key, value |-> value, ok |-> TRUE]

\* ModifyImageSharePermissionRequest with set_ImageId and set_IsPublic.
ModifyRequest(region, image, pub) ==
    [action |-> "ModifyImageSharePermission", region |-> region, image |-> image,
     key |-> "IsPublic", value |-> IF pub THEN "True" ELSE "False", ok |-> TRUE]

\* DescribeImages for one image ID: the list under Images.Image.
Describe(region, image) ==
    IF Ref(region, image) \in missing
    THEN <<>>
    ELSE << [ImageId |-> image, Tags |-> cloud[Ref(region, image)],
             IsPublic |-> Ref(region, image) \in public] >>

\* TagResources: the key takes the value, where it stands or at the end.
SetTag(tags, key, value) ==
    IF \E i \in DOMAIN tags : tags[i].TagKey = key
    THEN [i \in DOMAIN tags |->
             IF tags[i].TagKey = key THEN Tag(key, value) ELSE tags[i]]
    ELSE Append(tags, Tag(key, value))

Mutating(action) == action \in {"TagResources", "ModifyImageSharePermission", "DeleteImage"}

\* -------------------------------------------------------------- run_cmd

\* run_cmd as it would be if it issued a failed call a second time.
RunCmdRetry(dry, raises, request) ==
    IF dry
    THEN [result |-> "dry_run", issued |-> <<>>]
    ELSE IF raises
    THEN [result |-> "response", issued |-> <<[request EXCEPT !.ok = FALSE], request>>]
    ELSE [result |-> "response", issued |-> <<request>>]

\* The result of run_cmd and the calls it issued.  `raises` says whether the
\* provider raises ClientException or ServerException for this call.
RunCmd(dry, raises, request) ==
    IF dry
    THEN [result |-> "dry_run", issued |-> <<>>]
    ELSE IF raises
    THEN [result |-> "sys.exit(1)", issued |-> <<[request EXCEPT !.ok = FALSE]>>]
    ELSE [result |-> "response", issued |-> <<request>>]

\* ------------------------------------------------- get_images_not_tagged

RECURSIVE FlattenFrom(_, _, _)
FlattenFrom(d, i, j) ==
    IF i > Len(d) THEN <<>>
    ELSE IF j > Len(d[i].v) THEN FlattenFrom(d, i + 1, 1)
    ELSE <<[buildid |-> d[i].k, region |-> d[i].v[j].k, image |-> d[i].v[j].v]>>
         \o FlattenFrom(d, i, j + 1)

\* The (build, region, image) triples in the order the two loops visit them.
Flatten(d) == FlattenFrom(d, 1, 1)

\* Lines 70-75: a tag with key bootimage and value true or false.
TagFound(tags) ==
    \E i \in DOMAIN tags :
        /\ tags[i].TagKey = "bootimage"
        /\ (tags[i].TagValue = "true" \/ tags[i].TagValue = "false")

RECURSIVE AddUntagged(_, _, _, _, _)
\* Lines 69-79: every image of the response that has no such tag is appended.
AddUntagged(nottagged, images, n, buildid, region) ==
    IF n > Len(images) THEN nottagged
    ELSE LET item == [region_id |-> region, image_id |-> images[n].ImageId]
             next == IF TagFound(images[n].Tags) THEN nottagged
                     ELSE IF Has(nottagged, buildid)
                          THEN Put(nottagged, buildid, Append(Get(nottagged, buildid), item))
                          ELSE Put(nottagged, buildid, <<item>>)
         IN  AddUntagged(next, images, n + 1, buildid, region)

RECURSIVE NotTaggedFrom(_, _, _, _, _, _)
NotTaggedFrom(items, i, nottagged, issued, dry, failAt) ==
    IF i > Len(items)
    THEN [ret |-> PyDict(nottagged), issued |-> issued, outcome |-> "returned"]
    ELSE LET r == RunCmd(dry, Len(issued) + 1 = failAt,
                         Request("DescribeImages", items[i].region, items[i].image))
             sent == issued \o r.issued
         IN  IF r.result = "dry_run"
             THEN [ret |-> PyNone, issued |-> sent, outcome |-> "returned"]
             ELSE IF r.result = "sys.exit(1)"
             THEN [ret |-> PyNone, issued |-> sent, outcome |-> "sys.exit(1)"]
             ELSE NotTaggedFrom(items, i + 1,
                                AddUntagged(nottagged, Describe(items[i].region, items[i].image),
                                            1, items[i].buildid, items[i].region),
                                sent, dry, failAt)

\* get_images_not_tagged(bootimages): what it returns, the calls it issued
\* and how it ended.  The failAt-th call it issues raises a provider error.
get_images_not_tagged(d, dry, failAt) ==
    NotTaggedFrom(Flatten(d), 1, <<>>, <<>>, dry, failAt)

\* -------------------------------------------------------- parse_release

Digits == {"0", "1", "2", "3", "4", "5", "6", "7", "8", "9"}

DigitValue(c) ==
    CASE c = "0" -> 0 [] c = "1" -> 1 [] c = "2" -> 2 [] c = "3" -> 3 [] c = "4" -> 4
      [] c = "5" -> 5 [] c = "6" -> 6 [] c = "7" -> 7 [] c = "8" -> 8 [] c = "9" -> 9

\* str.replace(ch, '')
Strip(chars, ch) == SelectSeq(chars, LAMBDA c : c # ch)

RECURSIVE IntFrom(_, _, _)
IntFrom(chars, i, acc) ==
    IF i > Len(chars) THEN acc
    ELSE IntFrom(chars, i + 1, 10 * acc + DigitValue(chars[i]))

\* int(s) of a string of digits; anything else raises ValueError.
IsInt(chars) == Len(chars) > 0 /\ \A i \in DOMAIN chars : chars[i] \in Digits

PyInt(chars) == IntFrom(chars, 1, 0)

\* Lines 34-38.  The thresholds of x86_64 are strings; the other entries are 0.
FIRSTRELEASE(arch) ==
    IF arch = "x86_64"
    THEN [isdict |-> TRUE,
          d |-> << [k |-> "4.10",
                    v |-> <<"4","1","0","8","4","2","0","2","1","1","2","0","1","1","8","2","1","0">>],
                   [k |-> "4.11",
                    v |-> <<"4","1","1","8","4","2","0","2","2","0","2","0","7","1","8","3","9","0">>] >>]
    ELSE [isdict |-> FALSE, d |-> <<>>]

RECURSIVE MetaEntries(_, _, _)
\* Lines 113-114: releases[buildid][entry['name']] = {'image': entry['id']}
MetaEntries(regions, aliyun, i) ==
    IF i > Len(aliyun) THEN regions
    ELSE MetaEntries(Put(regions, aliyun[i].name, aliyun[i].id), aliyun, i + 1)

RECURSIVE ParseFrom(_, _, _, _, _, _)
ParseFrom(builds, i, release, json_file, releases, got) ==
    IF i > Len(builds)
    THEN [ret |-> releases, fetched |-> got, outcome |-> "returned"]
    ELSE LET build == builds[i]
             buildid == build.id
             arch == build.arches[1]
             stripped == Strip(Strip(BuildChars(buildid), "."), "-")
             first == FIRSTRELEASE(arch)
             stop(err) == [ret |-> releases, fetched |-> got, outcome |-> err]
         IN  IF Has(json_file, buildid)
             THEN ParseFrom(builds, i + 1, release, json_file, releases, got)
             ELSE IF ~IsInt(stripped) THEN stop("ValueError:101")
             ELSE IF ~first.isdict THEN stop("TypeError:104")
             ELSE IF ~Has(first.d, release) THEN stop("KeyError:104")
             ELSE IF PyInt(stripped) >= PyInt(<<Get(first.d, release)[1]>>)
             THEN ParseFrom(builds, i + 1, release, json_file,
                            IF Has(build.meta, "aliyun")
                            THEN Put(releases, buildid,
                                     MetaEntries(<<>>, Get(build.meta, "aliyun"), 1))
                            ELSE releases,
                            got \cup {buildid})
             ELSE ParseFrom(builds, i + 1, release, json_file, releases, got)

\* parse_release as it would be without the test of lines 97-99.
ParseReleaseNoSkip(release, json_file) ==
    ParseFrom(catalog, 1, release, <<>>, <<>>, {})

\* parse_release(release, json_file): the mapping it returns, the builds
\* whose meta.json it fetched and how it ended.
parse_release(release, json_file) ==
    ParseFrom(catalog, 1, release, json_file, <<>>, {})

\* ------------------------------------------------------------ tag_image

\* tag_image(region_id, image_id, tag_key, tag_value): lines 124-146.
tag_image(region_id, image_id, tag_key, tag_value, dry, raises) ==
    LET r == RunCmd(dry, raises, TagRequest(region_id, image_id, tag_key, tag_value))
    IN  [issued |-> r.issued,
         outcome |-> IF r.result = "sys.exit(1)" THEN "sys.exit(1)" ELSE "returned"]

\* ------------------------------------------- tag_image_and_save_to_file

LedgerEntry(region, image, deleted) ==
    [region |-> region, image |-> image, deleted |-> deleted]

RECURSIVE NewDataFrom(_, _, _, _)
\* Lines 155-164.  The call of tag_image on line 163 is a comment.
NewDataFrom(imgs, i, j, new_data) ==
    IF i > Len(imgs) THEN new_data
    ELSE IF j > Len(imgs[i].v) THEN NewDataFrom(imgs, i + 1, 1, new_data)
    ELSE LET buildid == imgs[i].k
             region == imgs[i].v[j]
             sofar == IF Has(new_data, buildid) THEN Get(new_data, buildid) ELSE <<>>
         IN  NewDataFrom(imgs, i, j + 1,
                         Put(new_data, buildid,
                             Append(sofar, LedgerEntry(region.region_id, region.image_id, FALSE))))

NewData(imgs) == NewDataFrom(imgs, 1, 1, <<>>)

\* tag_image_and_save_to_file(image_list, file_path): the file it leaves
\* and how it ended.  Lines 166-174.
tag_image_and_save_to_file(images, f) ==
    IF f.exists
    THEN IF f.garbage
         THEN [file |-> f, outcome |-> "JSONDecodeError:168"]
         ELSE [file |-> OverwriteFile(f, Update(f.data, NewData(images))),
               outcome |-> "returned"]
    ELSE [file |-> WriteFile(NewData(images)), outcome |-> "returned"]

\* --------------------------------------------------------- delete_image

RECURSIVE TagLoop(_, _, _, _, _)
\* Lines 257-276, the loop over the image's tags.  Line 261 calls json.load
\* on a str, which raises AttributeError.  Line 276 is in the loop's body.
\* An outcome that is an exception names the line that raises it.
TagLoop(tags, j, deleted, check_tag_key, check_tag_value) ==
    IF j > Len(tags) THEN [outcome |-> "next", deleted |-> deleted]
    ELSE IF tags[j].TagKey = check_tag_key /\ tags[j].TagValue = check_tag_value
    THEN [outcome |-> "AttributeError:261", deleted |-> deleted]
    ELSE TagLoop(tags, j + 1, TRUE, check_tag_key, check_tag_value)

RECURSIVE DeleteEntries(_, _, _, _, _)
\* Lines 244-278, the loop over one build's entries.  The DeleteImage call
\* of line 273 is a comment.
DeleteEntries(entries, pos, issued, dry, failAt) ==
    IF pos > Len(entries)
    THEN [entries |-> entries, issued |-> issued, outcome |-> "completed"]
    ELSE IF entries[pos].deleted
    THEN DeleteEntries(entries, pos + 1, issued, dry, failAt)
    ELSE LET region_id == entries[pos].region
             image_id == entries[pos].image
             r == RunCmd(dry, Len(issued) + 1 = failAt,
                         Request("DescribeImages", region_id, image_id))
             sent == issued \o r.issued
             images == Describe(region_id, image_id)
             stop(err) == [entries |-> entries, issued |-> sent, outcome |-> err]
         IN  IF r.result = "dry_run" THEN stop("TypeError:257")
             ELSE IF r.result = "sys.exit(1)" THEN stop("sys.exit(1)")
             ELSE IF Len(images) = 0 THEN stop("IndexError:257")
             ELSE LET t == TagLoop(images[1].Tags, 1, FALSE, "bootimage", "true")
                      marked == [entries EXCEPT ![pos].deleted = t.deleted]
                  IN  IF t.outcome = "next"
                      THEN DeleteEntries(marked, pos + 1, sent, dry, failAt)
                      ELSE [entries |-> marked, issued |-> sent, outcome |-> t.outcome]

\* delete_image(file_path): the ledger it holds in memory when it ends, the
\* file it leaves, the calls it issued and how it ended.  Lines 238-282: the
\* return of line 282 is in the loop over the builds, so one build is visited.
delete_image(f, dry, failAt) ==
    IF ~f.exists
    THEN [mem |-> <<>>, file |-> f, issued |-> <<>>, outcome |-> "UnboundLocalError:242"]
    ELSE IF f.garbage
    THEN [mem |-> <<>>, file |-> f, issued |-> <<>>, outcome |-> "JSONDecodeError:241"]
    ELSE IF f.data = <<>>
    THEN [mem |-> <<>>, file |-> f, issued |-> <<>>, outcome |-> "returned"]
    ELSE LET buildid == f.data[1].k
             r == DeleteEntries(f.data[1].v, 1, <<>>, dry, failAt)
             mem == Put(f.data, buildid, r.entries)
         IN  IF r.outcome = "completed"
             THEN [mem |-> mem, file |-> WriteFile(mem), issued |-> r.issued,
                   outcome |-> "returned"]
             ELSE [mem |-> mem, file |-> f, issued |-> r.issued, outcome |-> r.outcome]

\* ------------------------------------------------- main's reconciliation

RECURSIVE ReconcileFrom(_, _, _, _)
\* Lines 384-401.  Line 391, the call of tag_image, is a comment; line 393
\* reads the name builds, which nothing defines.
ReconcileFrom(candidates, i, protected, images) ==
    IF i > Len(candidates)
    THEN [image_list |-> images, issued |-> <<>>, outcome |-> "returned"]
    ELSE IF protected.none
    THEN [image_list |-> images, issued |-> <<>>, outcome |-> "TypeError:385"]
    ELSE IF Has(protected.d, candidates[i].k)
    THEN ReconcileFrom(candidates, i + 1, protected, images)
    ELSE [image_list |-> images, issued |-> <<>>, outcome |-> "NameError:393"]

Reconcile(candidates, protected) ==
    IF candidates.none
    THEN [image_list |-> <<>>, issued |-> <<>>, outcome |-> "AttributeError:384"]
    ELSE ReconcileFrom(candidates.d, 1, protected, <<>>)

\* ---------------------------------------------------- change_visibility

\* change_visibility as it would be without the test of line 207.
ChangeVisibilityUnguarded(region_id, image_id, pub, dry, failAt) ==
    LET d == RunCmd(dry, failAt = 1, Request("DescribeImages", region_id, image_id))
        m == RunCmd(dry, failAt = 2, ModifyRequest(region_id, image_id, pub))
    IN  IF d.result = "dry_run"
        THEN [issued |-> d.issued, outcome |-> "TypeError:207"]
        ELSE IF d.result = "sys.exit(1)"
        THEN [issued |-> d.issued, outcome |-> "sys.exit(1)"]
        ELSE [issued |-> d.issued \o m.issued,
              outcome |-> IF m.result = "sys.exit(1)" THEN "sys.exit(1)" ELSE "returned"]

\* change_visibility(region_id, image_id, public), lines 203-222: the calls
\* it issued and how it ended.  In a dry run get_image_info returns None and
\* line 207 subscripts it; with no image in the response line 207 takes [0]
\* of an empty list.  Line 220 compares the request, not the response, with
\* 'dry_run', so the response is always parsed.
change_visibility(region_id, image_id, pub, dry, failAt) ==
    LET d == RunCmd(dry, failAt = 1, Request("DescribeImages", region_id, image_id))
        images == Describe(region_id, image_id)
        m == RunCmd(dry, failAt = 2, ModifyRequest(region_id, image_id, pub))
    IN  IF d.result = "dry_run"
        THEN [issued |-> d.issued, outcome |-> "TypeError:207"]
        ELSE IF d.result = "sys.exit(1)"
        THEN [issued |-> d.issued, outcome |-> "sys.exit(1)"]
        ELSE IF Len(images) = 0
        THEN [issued |-> d.issued, outcome |-> "IndexError:207"]
        ELSE IF images[1].IsPublic = pub
        THEN [issued |-> d.issued, outcome |-> "returned"]
        ELSE [issued |-> d.issued \o m.issued,
              outcome |-> IF m.result = "sys.exit(1)" THEN "sys.exit(1)" ELSE "returned"]

\* ---------------------------------------------------------------- actions

\* No change_visibility call has been made.
NoTarget == [ref |-> Ref("", ""), public |-> FALSE]

Init ==
    /\ installer \in Installers
    /\ catalog \in Catalogs
    /\ cloud \in [Refs -> TagLists]
    /\ file \in Ledgers
    /\ DRY_RUN = FALSE
    /\ pc = "idle"
    /\ outcome = "none"
    /\ calls = <<>>
    /\ fetched = {}
    /\ bootimages = PyDict(<<>>)
    /\ aliyun_releases = PyDict(<<>>)
    /\ deleted_images_json = <<>>
    /\ image_list = <<>>
    /\ file0 = file
    /\ mutations = {}
    /\ ops = <<>>
    /\ public = {}
    /\ missing = {}
    /\ target = NoTarget

\* A new process: nothing of the last one's memory is left.
Begin(name, dry) ==
    /\ pc = "idle"
    /\ Len(ops) < MaxOps
    /\ ops' = Append(ops, name)
    /\ DRY_RUN' = dry
    /\ file0' = file
    /\ fetched' = {}
    /\ bootimages' = PyDict(<<>>)
    /\ aliyun_releases' = PyDict(<<>>)
    /\ image_list' = <<>>

\* The operation that runs, or that ran last.
op == IF ops = <<>> THEN "none" ELSE ops[Len(ops)]

\* The successful mutating calls among those issued.
Succeeded(issued) ==
    {issued[i] : i \in {n \in DOMAIN issued : issued[n].ok /\ Mutating(issued[n].action)}}

\* main, lines 357-374: DRY_RUN is set and the ledger file is loaded.
MainStart ==
    \E dry \in BOOLEAN :
        /\ Begin("main", dry)
        /\ calls' = <<>>
        /\ IF file.exists /\ file.garbage
           THEN /\ pc' = "idle"
                /\ outcome' = "JSONDecodeError:374"
                /\ deleted_images_json' = <<>>
           ELSE /\ pc' = "main377"
                /\ outcome' = "running"
                /\ deleted_images_json' = IF file.exists THEN file.data ELSE <<>>
        /\ UNCHANGED << public, missing, target, installer, catalog, cloud, file, mutations >>

\* main, lines 377-378.
MainBootimages ==
    \E failAt \in 0..MaxFailAt :
        LET r == get_images_not_tagged(installer, DRY_RUN, failAt)
        IN  /\ pc = "main377"
            /\ bootimages' = r.ret
            /\ calls' = calls \o r.issued
            /\ IF r.outcome = "returned"
               THEN pc' = "main380" /\ outcome' = outcome
               ELSE pc' = "idle" /\ outcome' = r.outcome
            /\ UNCHANGED << public, missing, target, installer, catalog, cloud, file, DRY_RUN, fetched,
                            aliyun_releases, deleted_images_json, image_list, file0,
                            mutations, ops >>

\* main, line 380.
MainParseRelease ==
    LET r == parse_release(Release, deleted_images_json)
    IN  /\ pc = "main380"
        /\ aliyun_releases' = PyDict(r.ret)
        /\ fetched' = r.fetched
        /\ IF r.outcome = "returned"
           THEN pc' = "main381" /\ outcome' = outcome
           ELSE pc' = "idle" /\ outcome' = r.outcome
        /\ UNCHANGED << public, missing, target, installer, catalog, cloud, file, DRY_RUN, calls, bootimages,
                        deleted_images_json, image_list, file0, mutations, ops >>

\* main, line 381.
MainCandidates ==
    \E failAt \in 0..MaxFailAt :
        LET r == get_images_not_tagged(aliyun_releases.d, DRY_RUN, failAt)
        IN  /\ pc = "main381"
            /\ aliyun_releases' = r.ret
            /\ calls' = calls \o r.issued
            /\ IF r.outcome = "returned"
               THEN pc' = "main384" /\ outcome' = outcome
               ELSE pc' = "idle" /\ outcome' = r.outcome
            /\ UNCHANGED << public, missing, target, installer, catalog, cloud, file, DRY_RUN, fetched,
                            bootimages, deleted_images_json, image_list, file0,
                            mutations, ops >>

\* main, lines 384-404: the loop, and the end of the process.
MainReconcile ==
    LET r == Reconcile(aliyun_releases, bootimages)
    IN  /\ pc = "main384"
        /\ image_list' = r.image_list
        /\ calls' = calls \o r.issued
        /\ pc' = "idle"
        /\ outcome' = r.outcome
        /\ UNCHANGED << public, missing, target, installer, catalog, cloud, file, DRY_RUN, fetched, bootimages,
                        aliyun_releases, deleted_images_json, file0, mutations, ops >>

\* tag_image called for one image, with the default key and value.
TagImage ==
    \E dry \in BOOLEAN, ref \in TagTargets, raises \in BOOLEAN :
        LET value == "false"
            r == tag_image(ref.region, ref.image, "bootimage", value, dry, raises)
        IN  /\ Begin("tag_image", dry)
            /\ calls' = r.issued
            /\ mutations' = mutations \cup Succeeded(r.issued)
            /\ cloud' = IF Succeeded(r.issued) # {}
                        THEN [cloud EXCEPT ![ref] = SetTag(@, "bootimage", value)]
                        ELSE cloud
            /\ pc' = "idle"
            /\ outcome' = r.outcome
            /\ deleted_images_json' = <<>>
            /\ UNCHANGED << public, missing, target, installer, catalog, file >>

\* tag_image_and_save_to_file called with an image list.
TagImageAndSaveToFile ==
    \E dry \in BOOLEAN, images \in ImageLists :
        LET r == tag_image_and_save_to_file(images, file)
        IN  /\ Begin("tag_image_and_save_to_file", dry)
            /\ calls' = <<>>
            /\ file' = r.file
            /\ pc' = "idle"
            /\ outcome' = r.outcome
            /\ deleted_images_json' = <<>>
            /\ UNCHANGED << public, missing, target, installer, catalog, cloud, mutations >>

\* delete_image called on the ledger file.
DeleteImage ==
    \E dry \in BOOLEAN, failAt \in 0..MaxFailAt :
        LET r == delete_image(file, dry, failAt)
        IN  /\ Begin("delete_image", dry)
            /\ calls' = r.issued
            /\ mutations' = mutations \cup Succeeded(r.issued)
            /\ file' = r.file
            /\ deleted_images_json' = r.mem
            /\ pc' = "idle"
            /\ outcome' = r.outcome
            /\ UNCHANGED << public, missing, target, installer, catalog, cloud >>

\* ModifyImageSharePermission: IsPublic takes the value of the request.
SetPublic(images, ref, pub) == IF pub THEN images \cup {ref} ELSE images \ {ref}

\* change_visibility called for one image.
ChangeVisibility ==
    \E dry \in BOOLEAN, ref \in VisibilityTargets, pub \in BOOLEAN, failAt \in 0..MaxFailAt :
        LET r == change_visibility(ref.region, ref.image, pub, dry, failAt)
        IN  /\ Begin("change_visibility", dry)
            /\ calls' = r.issued
            /\ mutations' = mutations \cup Succeeded(r.issued)
            /\ public' = IF Succeeded(r.issued) # {} THEN SetPublic(public, ref, pub) ELSE public
            /\ target' = [ref |-> ref, public |-> pub]
            /\ pc' = "idle"
            /\ outcome' = r.outcome
            /\ deleted_images_json' = <<>>
            /\ UNCHANGED << missing, installer, catalog, cloud, file >>

Next ==
    \/ MainStart
    \/ MainBootimages
    \/ MainParseRelease
    \/ MainCandidates
    \/ MainReconcile
    \/ TagImage
    \/ TagImageAndSaveToFile
    \/ DeleteImage

Spec == Init /\ [][Next]_vars

\* ------------------------------------------- the loop on its own inputs

\* What get_images_not_tagged returns for a build: its untagged images.
Untagged(buildid) ==
    IF buildid = "410.1"
    THEN [k |-> buildid, v |-> <<[region_id |-> "r1", image_id |-> "i1"]>>]
    ELSE [k |-> buildid, v |-> <<[region_id |-> "r1", image_id |-> "i2"],
                                 [region_id |-> "r2", image_id |-> "i3"]>>]

UntaggedMappings ==
    { <<>>, <<Untagged("410.1")>>, <<Untagged("410.2")>>,
      <<Untagged("410.1"), Untagged("410.2")>>,
      <<Untagged("410.2"), Untagged("410.1")>> }

\* The values get_images_not_tagged returns: in a dry run None, or {} for
\* an empty input; else a mapping.
Returned(dry) ==
    IF dry THEN {PyNone, PyDict(<<>>)} ELSE {PyDict(d) : d \in UntaggedMappings}

\* The loop of lines 384-401 taken as the reconciliation engine: the
\* protected mapping, the candidate mapping and the ledger are its inputs.
InitReconcile ==
    /\ installer = <<>>
    /\ catalog = <<>>
    /\ cloud = [ref \in Refs |-> <<>>]
    /\ file \in Ledgers
    /\ DRY_RUN \in BOOLEAN
    /\ pc = "main384"
    /\ outcome = "running"
    /\ calls = <<>>
    /\ fetched = {}
    /\ bootimages \in Returned(DRY_RUN)
    /\ aliyun_releases \in Returned(DRY_RUN)
    /\ deleted_images_json = file.data
    /\ image_list = <<>>
    /\ file0 = file
    /\ mutations = {}
    /\ ops = <<"main">>
    /\ public = {}
    /\ missing = {}
    /\ target = NoTarget

SpecReconcile == InitReconcile /\ [][MainReconcile]_vars

\* ------------------------------------ images that are public or missing

\* The tags the images start with: none, or bootimage=false on each.
ImageTags ==
    { [ref \in Refs |-> <<>>],
      [ref \in Refs |-> <<Tag("bootimage", "false")>>] }

\* The processes that describe images, run on images of which some are
\* public and some are not found by DescribeImages.
InitImages ==
    /\ installer = << [k |-> "410.1", v |-> <<[k |-> "r1", v |-> "i1"]>>] >>
    /\ catalog \in Catalogs
    /\ cloud \in ImageTags
    /\ file \in Ledgers
    /\ DRY_RUN = FALSE
    /\ pc = "idle"
    /\ outcome = "none"
    /\ calls = <<>>
    /\ fetched = {}
    /\ bootimages = PyDict(<<>>)
    /\ aliyun_releases = PyDict(<<>>)
    /\ deleted_images_json = <<>>
    /\ image_list = <<>>
    /\ file0 = file
    /\ mutations = {}
    /\ ops = <<>>
    /\ public \in SUBSET Refs
    /\ missing \in SUBSET {Ref("r1", "i1")}
    /\ target = NoTarget

NextImages ==
    \/ MainStart
    \/ MainBootimages
    \/ MainParseRelease
    \/ MainCandidates
    \/ MainReconcile
    \/ DeleteImage
    \/ ChangeVisibility

SpecImages == InitImages /\ [][NextImages]_vars

\* ------------------------------- get_images_not_tagged on its own inputs

\* Tag lists with a bootimage tag of another value and with other keys.
OtherTagLists ==
    { <<>>,
      <<Tag("bootimage", "true")>>,
      <<Tag("bootimage", "false")>>,
      <<Tag("bootimage", "maybe")>>,
      <<Tag("other", "true")>>,
      <<Tag("other", "x"), Tag("bootimage", "false")>> }

\* The mappings get_images_not_tagged is called with.
Mappings ==
    { <<>>,
      << [k |-> "410.1", v |-> <<[k |-> "r1", v |-> "i1"]>>] >>,
      << [k |-> "410.2", v |-> <<[k |-> "r1", v |-> "i2"], [k |-> "r2", v |-> "i3"]>>],
         [k |-> "410.1", v |-> <<[k |-> "r1", v |-> "i1"]>>] >> }

\* main at line 377, about to call get_images_not_tagged.
InitNotTagged ==
    /\ installer \in Mappings
    /\ catalog = <<>>
    /\ cloud \in [Refs -> OtherTagLists]
    /\ file = NoFile
    /\ DRY_RUN \in BOOLEAN
    /\ pc = "main377"
    /\ outcome = "running"
    /\ calls = <<>>
    /\ fetched = {}
    /\ bootimages = PyDict(<<>>)
    /\ aliyun_releases = PyDict(<<>>)
    /\ deleted_images_json = <<>>
    /\ image_list = <<>>
    /\ file0 = file
    /\ mutations = {}
    /\ ops = <<"main">>
    /\ public = {}
    /\ missing = {}
    /\ target = NoTarget

SpecNotTagged == InitNotTagged /\ [][MainBootimages]_vars

\* ------------------------------------------------------------ the claims

BuildIds == {"410.1", "410.2"}

IsDeleted(data, buildid, ref) ==
    \E i \in DOMAIN data :
        /\ data[i].k = buildid
        /\ \E j \in DOMAIN data[i].v :
               data[i].v[j] = LedgerEntry(ref.region, ref.image, TRUE)

IsPending(data, buildid, ref) ==
    \E i \in DOMAIN data :
        /\ data[i].k = buildid
        /\ \E j \in DOMAIN data[i].v :
               data[i].v[j] = LedgerEntry(ref.region, ref.image, FALSE)

Protective(ref) ==
    \E i \in DOMAIN cloud[ref] : cloud[ref][i] = Tag("bootimage", "true")

Issued(action, ref) ==
    \E i \in DOMAIN calls :
        calls[i].action = action /\ calls[i].region = ref.region /\ calls[i].image = ref.image

TagIssued(ref, value) ==
    \E i \in DOMAIN calls :
        calls[i] = TagRequest(ref.region, ref.image, "bootimage", value)

RefsOf(mapping, buildid) ==
    {Ref(Get(mapping, buildid)[j].region_id, Get(mapping, buildid)[j].image_id) :
        j \in DOMAIN Get(mapping, buildid)}

\* C1.  Deletion safety: when delete_image has run, an entry that it found
\* with deleted=false and whose image carries bootimage=true is not marked
\* deleted in memory, is not marked deleted in the file, and no DeleteImage
\* call was issued for it.
C1_DeletionSafety ==
    op = "delete_image" =>
        \A b \in BuildIds, ref \in Refs :
            (IsPending(file0.data, b, ref) /\ Protective(ref)) =>
                /\ ~IsDeleted(deleted_images_json, b, ref)
                /\ ~IsDeleted(file.data, b, ref)
                /\ ~Issued("DeleteImage", ref)

\* C2.  An entry has deleted=true in the ledger file only if a DeleteImage
\* call for its region and image has returned successfully before.
C2_DeletedOnlyAfterDelete ==
    \A b \in BuildIds, ref \in Refs :
        IsDeleted(file.data, b, ref) =>
            \E m \in mutations :
                m.action = "DeleteImage" /\ m.region = ref.region /\ m.image = ref.image

\* The loop of main has been entered and main has ended.
LoopEnded ==
    /\ op = "main"
    /\ pc = "idle"
    /\ outcome \in {"returned", "NameError:393", "TypeError:385"}
    /\ ~aliyun_releases.none
    /\ ~bootimages.none

\* C3.  Protection invariant: when main's loop has run to its end, every
\* image of a build that is in both the protected and the candidate mapping
\* has had a bootimage=true tag call issued for it, is not in image_list and
\* is not in the ledger file.
C3_ProtectionInvariant ==
    (LoopEnded /\ outcome = "returned") =>
        \A b \in Keys(aliyun_releases.d) \cap Keys(bootimages.d) :
            \A ref \in RefsOf(aliyun_releases.d, b) :
                /\ TagIssued(ref, "true")
                /\ ~Has(image_list, b)
                /\ ~IsPending(file.data, b, ref)
                /\ ~IsDeleted(file.data, b, ref)

\* C4.  Staging completeness: when a run of main without dry-run and without
\* a provider error has ended, every image of a candidate build that is
\* neither protected nor in the ledger has had a bootimage=false tag call
\* issued for it and has an entry with deleted=false in the ledger file.
C4_StagingCompleteness ==
    (LoopEnded /\ ~DRY_RUN) =>
        \A b \in Keys(aliyun_releases.d) \ (Keys(bootimages.d) \cup Keys(file0.data)) :
            \A ref \in RefsOf(aliyun_releases.d, b) :
                /\ TagIssued(ref, "false")
                /\ IsPending(file.data, b, ref)

\* The running process is a run of main that directly follows a run of main.
SecondRun ==
    /\ Len(ops) >= 2
    /\ ops[Len(ops)] = "main"
    /\ ops[Len(ops) - 1] = "main"

C6_Monotonicity ==
    \A b \in BuildIds, ref \in Refs :
        IsDeleted(file0.data, b, ref) => ~IsPending(file.data, b, ref)

\* C7.  Dry-run purity: a process that runs with dry-run enabled issues no
\* mutating call and leaves the ledger file as it found it.
C7_DryRunPurity ==
    (DRY_RUN /\ op # "none") =>
        /\ \A i \in DOMAIN calls : ~Mutating(calls[i].action)
        /\ file = file0

\* C8.  Reads in a dry run: a dry run of main computes the untagged mappings
\* that a real run computes on the same inputs, and its loop does not fail
\* on a mapping that is None.
C8_DryRunReads ==
    (op = "main" /\ DRY_RUN) =>
        /\ pc = "main380" => bootimages = get_images_not_tagged(installer, FALSE, 0).ret
        /\ pc = "main384" =>
               aliyun_releases =
                   get_images_not_tagged(parse_release(Release, deleted_images_json).ret,
                                         FALSE, 0).ret
        /\ pc = "idle" => outcome \notin {"AttributeError:384", "TypeError:385"}

\* C9.  Fail-fast without retry: a call that raised a provider error is the
\* last call of its process, the process has ended with sys.exit(1), it ran
\* without dry-run, and it has not written the ledger file; and a process
\* ends with sys.exit(1) only on such a call.
C9_FailFast ==
    /\ \A i \in DOMAIN calls :
           ~calls[i].ok =>
               /\ i = Len(calls)
               /\ pc = "idle"
               /\ outcome = "sys.exit(1)"
               /\ ~DRY_RUN
               /\ file = file0
    /\ outcome = "sys.exit(1)" => (calls # <<>> /\ ~calls[Len(calls)].ok)

\* A process has ended on a provider error raised by its second call.
C9_Witness ==
    /\ outcome = "sys.exit(1)"
    /\ Len(calls) = 2
    /\ calls[1].ok
    /\ ~calls[2].ok

CandidatesNotKnown ==
    (op = "main" /\ pc = "main384" /\ ~aliyun_releases.none) =>
        Keys(aliyun_releases.d) \cap Keys(deleted_images_json) = {}

\* C11.  The loop raises no error: when main has entered its loop with two
\* mappings, it runs the loop to its end.
C11_LoopRaisesNoError ==
    LoopEnded => outcome = "returned"

\* C12.  Drain completeness: when delete_image has returned in a run without
\* dry-run, every entry that it found with deleted=false and whose image
\* does not carry bootimage=true has deleted=true in the ledger file.
C12_DrainCompleteness ==
    (op = "delete_image" /\ pc = "idle" /\ ~DRY_RUN /\ outcome = "returned") =>
        \A b \in BuildIds, ref \in Refs :
            (IsPending(file0.data, b, ref) /\ ~Protective(ref)) =>
                IsDeleted(file.data, b, ref)

\* C13.  A protected entry is skipped, not fatal: when delete_image has
\* described a pending entry whose image carries bootimage=true and no call
\* has raised a provider error, it has returned, the entry is still pending
\* in the file and every pending entry it found has been described.
C13_ProtectedEntrySkipped ==
    ( /\ op = "delete_image"
      /\ pc = "idle"
      /\ outcome # "sys.exit(1)"
      /\ \E b \in BuildIds, ref \in Refs :
             /\ IsPending(file0.data, b, ref)
             /\ Protective(ref)
             /\ Issued("DescribeImages", ref) )
    => /\ outcome = "returned"
       /\ \A b \in BuildIds, ref \in Refs :
              IsPending(file0.data, b, ref) =>
                  /\ Issued("DescribeImages", ref)
                  /\ Protective(ref) => IsPending(file.data, b, ref)

\* int(a) >= int(b) for two strings of digits of any length.
DropZeros(chars) ==
    IF \A i \in DOMAIN chars : chars[i] = "0" THEN <<"0">>
    ELSE SubSeq(chars, CHOOSE i \in DOMAIN chars :
                           chars[i] # "0" /\ \A j \in 1..(i - 1) : chars[j] = "0",
                Len(chars))

RECURSIVE LexGe(_, _, _)
LexGe(a, b, i) ==
    IF i > Len(a) THEN TRUE
    ELSE IF DigitValue(a[i]) # DigitValue(b[i]) THEN DigitValue(a[i]) > DigitValue(b[i])
    ELSE LexGe(a, b, i + 1)

DigitsGe(a, b) ==
    LET x == DropZeros(a)
        y == DropZeros(b)
    IN  IF Len(x) # Len(y) THEN Len(x) > Len(y) ELSE LexGe(x, y, 1)

\* C18.  Supported-since threshold: a build whose meta.json main has fetched
\* has an ordinal that is not below the threshold that FIRSTRELEASE gives
\* for its architecture and the release.
C18_SupportedSince ==
    op = "main" =>
        \A i \in DOMAIN catalog :
            catalog[i].id \in fetched =>
                /\ FIRSTRELEASE(catalog[i].arches[1]).isdict
                /\ DigitsGe(Strip(Strip(BuildChars(catalog[i].id), "."), "-"),
                            Get(FIRSTRELEASE(catalog[i].arches[1]).d, Release))

\* C19.  An absent ledger file is an empty ledger: main starts with an empty
\* ledger in memory, and delete_image returns with no call issued and
\* nothing changed.
C19_AbsentLedger ==
    ~file0.exists =>
        /\ (op = "main" /\ pc = "main377") => deleted_images_json = <<>>
        /\ (op = "delete_image" /\ pc = "idle") =>
               (outcome = "returned" /\ calls = <<>> /\ file = file0)


\* C14.  Private before delete: an entry that delete_image found pending and
\* marked deleted=true, in memory or in the file, is an entry whose image is
\* not public.
C14_PrivateBeforeDelete ==
    op = "delete_image" =>
        \A b \in BuildIds, ref \in Refs :
            ( /\ IsPending(file0.data, b, ref)
              /\ IsDeleted(file.data, b, ref) \/ IsDeleted(deleted_images_json, b, ref) )
            => ref \notin public

ModifyIssued(issued) ==
    \E i \in DOMAIN issued : issued[i].action = "ModifyImageSharePermission"

\* The step is a call of change_visibility.
VisibilityStep == ops' # ops /\ ops'[Len(ops')] = "change_visibility"

\* C15.  Guarded visibility change: in every call of change_visibility a
\* ModifyImageSharePermission call is issued only after a DescribeImages call
\* for the same image has returned, only for the requested image and value,
\* and only when the image's IsPublic differs from the requested value; a
\* call that returns has issued the DescribeImages call first; when
\* they are equal no mutating call is issued; and a call that follows a
\* returned call with the same arguments issues no change call.
C15_GuardedVisibilityChange ==
    [][ VisibilityStep =>
          LET ref == target'.ref
              pub == target'.public
          IN  /\ \A i \in DOMAIN calls' :
                     calls'[i].action = "ModifyImageSharePermission" =>
                         /\ i > 1
                         /\ calls'[1] = Request("DescribeImages", ref.region, ref.image)
                         /\ calls'[i].region = ref.region
                         /\ calls'[i].image = ref.image
                         /\ calls'[i].value = (IF pub THEN "True" ELSE "False")
                         /\ (ref \in public) # pub
              /\ outcome' = "returned" =>
                     ( /\ calls' # <<>>
                       /\ calls'[1] = Request("DescribeImages", ref.region, ref.image) )
              /\ (ref \in public) = pub =>
                     (~ModifyIssued(calls') /\ Succeeded(calls') = {} /\ public' = public)
              /\ (op = "change_visibility" /\ outcome = "returned" /\ target' = target) =>
                     ~ModifyIssued(calls')
      ]_vars

\* Two calls of change_visibility with the same arguments: the first changed
\* the image's IsPublic, the second read it and issued no change call.
C15_Witness ==
    /\ ops = <<"change_visibility", "change_visibility">>
    /\ outcome = "returned"
    /\ calls = <<Request("DescribeImages", target.ref.region, target.ref.image)>>
    /\ ModifyRequest(target.ref.region, target.ref.image, target.public) \in mutations

\* C16.  When a DescribeImages call has returned zero images for an image ID,
\* the process has ended with the fatal API error.
C16_ZeroImagesFatal ==
    \A i \in DOMAIN calls :
        ( /\ calls[i].action = "DescribeImages"
          /\ calls[i].ok
          /\ Ref(calls[i].region, calls[i].image) \in missing )
        => (pc = "idle" /\ outcome = "sys.exit(1)")

\* A tag set that classifies its image: bootimage=true or bootimage=false.
Classified(tags) ==
    \E i \in DOMAIN tags :
        tags[i] = Tag("bootimage", "true") \/ tags[i] = Tag("bootimage", "false")

\* The images of one build of the input that are not classified, in order.
Unclassified(regions) ==
    SelectSeq([j \in DOMAIN regions |->
                  [region_id |-> regions[j].k, image_id |-> regions[j].v]],
              LAMBDA item : ~Classified(cloud[Ref(item.region_id, item.image_id)]))

\* The builds of the input that have an unclassified image, in order.
UnclassifiedMapping(d) ==
    SelectSeq([i \in DOMAIN d |-> [k |-> d[i].k, v |-> Unclassified(d[i].v)]],
              LAMBDA b : b.v # <<>>)

\* C17.  When get_images_not_tagged has returned to main, its result is the
\* mapping of exactly the images of its input that have no tag bootimage=true
\* and no tag bootimage=false, under their build IDs and in input order.
C17_ExactlyUnclassified ==
    (op = "main" /\ pc = "main380") =>
        bootimages = PyDict(UnclassifiedMapping(installer))

====
